---- MODULE Spec2Model ----
(***************************************************************************)
(* Model of lib/index.js of keyvault-configuration-resolver-node: the      *)
(* scan of a configuration object for keyvault:// leaves, the fan-out of   *)
(* one getSecret per discovered path through async.forEachOf, the write    *)
(* of each resolved value back through objectPath.set, and the client      *)
(* construction in createAndWrapKeyVaultClient.                            *)
(*                                                                         *)
(* Strings.  A property name or a dotted path is a sequence of one-letter  *)
(* strings, so that  prefix + '.' + property  is concatenation and the     *)
(* split on '.' done by objectPath.set is a real operator.  A leaf string  *)
(* is a sequence of URL tokens (scheme, "//", user-info, "@", host, path   *)
(* segments) on which url.parse and url.format are defined.                *)
(***************************************************************************)
EXTENDS Integers, Sequences, FiniteSets, TLC

(***************************************************************************)
(* Bounds of the model.                                                    *)
(***************************************************************************)
\* number of distinct secret / tag values the store can return
NumValues == 2
\* number of distinct errors a fetch can fail with
NumErrors == 2

\* the second value is a string that url.parse reads with the marker scheme
ValueNames == <<"s1", "keyvault:", "s3">>
ErrorNames == <<"e1", "e2", "e3">>

(***************************************************************************)
(* JavaScript values of the configuration tree.                            *)
(***************************************************************************)
NoKids == <<>>

Str(s) == [t |-> "string", s |-> s, keys |-> <<>>, kids |-> NoKids]

Num == [t |-> "number", s |-> <<"5">>, keys |-> <<>>, kids |-> NoKids]

Bool == [t |-> "boolean", s |-> <<"true">>, keys |-> <<>>, kids |-> NoKids]

Null == [t |-> "null", s |-> <<>>, keys |-> <<>>, kids |-> NoKids]

Undefined == [t |-> "undefined", s |-> <<>>, keys |-> <<>>, kids |-> NoKids]

\* an object with its properties in insertion order (the order of for..in)
Obj(keys, kids) == [t |-> "object", s |-> <<>>, keys |-> keys, kids |-> kids]

EmptyObj == Obj(<<>>, NoKids)

\* a property whose value is an object that contains it (object.s = object)
BackRef == [t |-> "backref", s |-> <<>>, keys |-> <<>>, kids |-> NoKids]

\* typeof: null is an 'object'
TypeOf(value) == IF value.t \in {"null", "backref"} THEN "object" ELSE value.t

\* obj[property] = value, a new property going last in the for..in order
PutProp(obj, property, value) ==
  [obj EXCEPT
     !.keys = IF property \in DOMAIN obj.kids THEN @ ELSE Append(@, property),
     !.kids = [k \in (DOMAIN obj.kids) \cup {property} |->
                 IF k = property THEN value ELSE obj.kids[k]]]

(***************************************************************************)
(* url.parse and url.format on token strings.                              *)
(***************************************************************************)
keyVaultProtocol == "keyvault:"

httpsProtocol == "https:"

Schemes == {keyVaultProtocol, httpsProtocol}

NullField == "null"

Drop(s, n) == SubSeq(s, n + 1, Len(s))

\* url.parse(value): protocol, slashes, auth, host, pathname
urlParse(value) ==
  LET protocol == IF Len(value) >= 1 /\ value[1] \in Schemes
                  THEN value[1] ELSE NullField
      r1 == IF protocol = NullField THEN value ELSE Drop(value, 1)
      slashes == protocol # NullField /\ Len(r1) >= 1 /\ r1[1] = "//"
      r2 == IF slashes THEN Drop(r1, 1) ELSE r1
      hasAuth == slashes /\ Len(r2) >= 2 /\ r2[2] = "@"
      auth == IF hasAuth THEN r2[1] ELSE NullField
      r3 == IF hasAuth THEN Drop(r2, 2) ELSE r2
      hasHost == slashes /\ Len(r3) >= 1
      host == IF hasHost THEN r3[1] ELSE NullField
      pathname == IF hasHost THEN Drop(r3, 1) ELSE r3
  IN [protocol |-> protocol, slashes |-> slashes, auth |-> auth,
      host |-> host, pathname |-> pathname]

\* url.format(urlObject)
urlFormat(u) ==
  (IF u.protocol = NullField THEN <<>> ELSE <<u.protocol>>)
  \o (IF u.slashes THEN <<"//">> ELSE <<>>)
  \o (IF u.auth = NullField THEN <<>> ELSE <<u.auth, "@">>)
  \o (IF u.host = NullField THEN <<>> ELSE <<u.host>>)
  \o u.pathname

NotAUrl == [protocol |-> "undefined", slashes |-> FALSE, auth |-> NullField,
            host |-> NullField, pathname |-> <<>>]

\* getUrlIfVault without the comparison to keyVaultProtocol
getUrlIfVaultAnyScheme(value) ==
  LET keyVaultUrl == urlParse(value)
  IN IF keyVaultUrl.protocol # NullField THEN keyVaultUrl ELSE NotAUrl

getUrlIfVault(value) ==
  LET keyVaultUrl == urlParse(value)
  IN IF keyVaultUrl.protocol = keyVaultProtocol THEN keyVaultUrl ELSE NotAUrl

(***************************************************************************)
(* identifyKeyVaultValuePaths: the map is kept as the sequence of its keys *)
(* in insertion order (the order async.forEachOf walks it) and a function. *)
(***************************************************************************)
NoPaths == [keys |-> <<>>, map |-> <<>>]

NoPrefix == <<"undefined">>

\* paths[path] = keyVaultUrl
PutPath(paths, path, keyVaultUrl) ==
  [keys |-> IF path \in DOMAIN paths.map THEN paths.keys
            ELSE Append(paths.keys, path),
   map |-> [p \in (DOMAIN paths.map) \cup {path} |->
              IF p = path THEN keyVaultUrl ELSE paths.map[p]]]

RECURSIVE ObjectAssign(_, _, _)
\* Object.assign(target, source), from the i-th property of source on
ObjectAssign(target, source, i) ==
  IF i > Len(source.keys) THEN target
  ELSE ObjectAssign(PutPath(target, source.keys[i], source.map[source.keys[i]]),
                    source, i + 1)

RECURSIVE identifyKeyVaultValuePaths(_, _)
RECURSIVE ScanProperties(_, _, _, _)
\* the for..in loop of identifyKeyVaultValuePaths from the i-th property on
ScanProperties(node, prefix, i, paths) ==
  IF i > Len(node.keys) THEN paths
  ELSE LET property == node.keys[i]
           value == node.kids[property]
           keyVaultUrl == getUrlIfVault(value.s)
       IN IF TypeOf(value) = "object"
          THEN ScanProperties(node, prefix, i + 1,
                 ObjectAssign(paths,
                   identifyKeyVaultValuePaths(value, prefix \o property), 1))
          ELSE IF TypeOf(value) # "string"
          THEN ScanProperties(node, prefix, i + 1, paths)
          ELSE IF keyVaultUrl = NotAUrl
          THEN ScanProperties(node, prefix, i + 1, paths)
          ELSE ScanProperties(node, prefix, i + 1,
                 PutPath(paths, prefix \o property, keyVaultUrl))

identifyKeyVaultValuePaths(node, prefix) ==
  ScanProperties(node, IF prefix # NoPrefix THEN prefix \o <<".">> ELSE <<>>,
                 1, NoPaths)

RECURSIVE Cyclic(_)
\* the object graph under node has a cycle
Cyclic(node) ==
  \/ node.t = "backref"
  \/ node.t = "object" /\ \E k \in DOMAIN node.kids : Cyclic(node.kids[k])

\* on a cycle the recursion of identifyKeyVaultValuePaths (line 81) never
\* ends: the call stack overflows and a RangeError is thrown
scanThrows(node) == Cyclic(node)

ScanError == "RangeError"

(***************************************************************************)
(* objectPath.set(config, path, value) of the object-path package: a       *)
(* string path is split on '.', the walk creates an empty object for a     *)
(* missing intermediate property and assigns the last segment.  The        *)
(* package is strict-mode code: when the walk arrives at a primitive (a    *)
(* string, a number, null) the assignment of a property to it throws a     *)
(* TypeError.                                                              *)
(***************************************************************************)
RECURSIVE SplitDots(_, _, _)
\* path.split('.'): cur is the segment being read, acc the segments read
SplitDots(path, cur, acc) ==
  IF path = <<>> THEN Append(acc, cur)
  ELSE IF Head(path) = "."
  THEN SplitDots(Tail(path), <<>>, Append(acc, cur))
  ELSE SplitDots(Tail(path), Append(cur, Head(path)), acc)

RECURSIVE SetSegments(_, _, _)
\* set(obj, [seg, ...], value): a missing intermediate object is created
SetSegments(obj, segs, value) ==
  LET currentPath == Head(segs)
      currentValue == IF currentPath \in DOMAIN obj.kids
                      THEN obj.kids[currentPath] ELSE Undefined
  IN IF Len(segs) = 1 THEN PutProp(obj, currentPath, value)
     ELSE PutProp(obj, currentPath,
            SetSegments(IF currentValue = Undefined THEN EmptyObj ELSE currentValue,
                        Tail(segs), value))

objectPathSet(config, path, value) ==
  IF path = <<>> THEN config
  ELSE SetSegments(config, SplitDots(path, <<>>, <<>>), value)

RECURSIVE WalkMeetsPrimitive(_, _)
\* set(obj, [seg, ...], value) has to assign a property of a primitive
WalkMeetsPrimitive(obj, segs) ==
  LET currentPath == Head(segs)
      currentValue == IF currentPath \in DOMAIN obj.kids
                      THEN obj.kids[currentPath] ELSE Undefined
  IN IF obj.t # "object" THEN TRUE
     ELSE IF Len(segs) = 1 THEN FALSE
     ELSE IF currentValue = Undefined THEN FALSE
     ELSE WalkMeetsPrimitive(currentValue, Tail(segs))

\* objectPath.set(config, path, value) throws
objectPathSetThrows(config, path) ==
  path # <<>> /\ WalkMeetsPrimitive(config, SplitDots(path, <<>>, <<>>))

RECURSIVE GetSegments(_, _)
\* objectPath.get(obj, [seg, ...]): the reader matching objectPath.set
GetSegments(obj, segs) ==
  IF segs = <<>> THEN obj
  ELSE IF obj.t # "object" \/ Head(segs) \notin DOMAIN obj.kids THEN Undefined
  ELSE GetSegments(obj.kids[Head(segs)], Tail(segs))

objectPathGet(config, path) == GetSegments(config, SplitDots(path, <<>>, <<>>))

(***************************************************************************)
(* The configuration objects a pass is run on.  Property names may contain *)
(* a '.', the dotted path of a leaf may extend the dotted path of another, *)
(* and an object may contain itself.                                       *)
(***************************************************************************)
RefNoTag == Str(<<"keyvault:", "//", "vault", "/secrets/db-pass">>)

RefTag == Str(<<"keyvault:", "//", "user", "@", "vault", "/secrets/db-creds">>)

RefVersion == Str(<<"keyvault:", "//", "vault", "/secrets/db-pass", "/v1">>)

\* RefVersion with a tag
RefTagVersion ==
  Str(<<"keyvault:", "//", "user", "@", "vault", "/secrets/db-pass", "/v1">>)

\* RefNoTag with a tag: the two differ in the tag alone
RefTagPass == Str(<<"keyvault:", "//", "user", "@", "vault", "/secrets/db-pass">>)

HttpsUri == Str(<<"https:", "//", "vault", "/secrets/db-pass">>)

NonUri == Str(<<"hello">>)

ka == <<"a">>

kb == <<"b">>

kc == <<"c">>

kd == <<"d">>

ke == <<"e">>

kab == <<"a", ".", "b">>

ks == <<"s">>

\* { a: { b: { c: x, d: y }, e: z } }
NestedTree(x, y, z) ==
  Obj(<<ka>>, ka :> Obj(<<kb, ke>>,
                        kb :> Obj(<<kc, kd>>, kc :> x @@ kd :> y) @@ ke :> z))

\* { "a.b": x, a: { b: y } }
DottedFirst(x, y) == Obj(<<kab, ka>>, kab :> x @@ ka :> Obj(<<kb>>, kb :> y))

\* { a: { b: y }, "a.b": x }
DottedLast(x, y) == Obj(<<ka, kab>>, kab :> x @@ ka :> Obj(<<kb>>, kb :> y))

\* { "a.b": x }
DottedOnly(x) == Obj(<<kab>>, kab :> x)

\* { a: x, "a.b": y }
PrefixTree(x, y) == Obj(<<ka, kab>>, ka :> x @@ kab :> y)

\* object = { a: x }; object.s = object
CyclicTree(x) == Obj(<<ka, ks>>, ka :> x @@ ks :> BackRef)

Trees ==
  {NestedTree(x, y, z) : x \in {RefNoTag, RefTag, RefVersion, HttpsUri},
                         y \in {RefTag, NonUri, Num, Null},
                         z \in {RefTagVersion, RefTagPass, Bool}}
  \cup {DottedFirst(x, y) : x \in {RefNoTag, HttpsUri}, y \in {RefTag, Num}}
  \cup {DottedLast(x, y) : x \in {RefNoTag, HttpsUri}, y \in {RefTag, Num}}
  \cup {DottedOnly(RefNoTag), EmptyObj}
  \cup {PrefixTree(x, y) : x \in {RefNoTag, RefTag}, y \in {RefNoTag, RefTag}}
  \cup {CyclicTree(x) : x \in {RefNoTag, Num}}

(***************************************************************************)
(* What keyVaultClient.getSecret hands to its callback.                    *)
(***************************************************************************)
NoError == "null"

Values == {ValueNames[i] : i \in 1..NumValues}

Errors == {ErrorNames[i] : i \in 1..NumErrors}

NoTags == [present |-> FALSE, map |-> <<>>]

TagSets ==
  {NoTags, [present |-> TRUE, map |-> <<>>],
   [present |-> TRUE, map |-> ("other" :> ValueNames[1])]}
  \cup {[present |-> TRUE, map |-> ("user" :> v)] : v \in Values}

\* (getSecretError, secretResponse)
Outcomes ==
  {[err |-> e, value |-> "none", tags |-> NoTags] : e \in Errors}
  \cup {[err |-> NoError, value |-> v, tags |-> t] : v \in Values, t \in TagSets}

Pending == [err |-> "pending", value |-> "none", tags |-> NoTags]

(***************************************************************************)
(* createAndWrapKeyVaultClient(options).  A field of options is modelled   *)
(* by its truthiness, clientId and clientSecret also by '' (falsy).        *)
(***************************************************************************)
NoOptions == [given |-> FALSE, isFunction |-> FALSE, getSecret |-> FALSE,
              client |-> FALSE, credentials |-> FALSE,
              clientId |-> "undefined", clientSecret |-> "undefined"]

IdValues == {"undefined", "", "id"}

OptionsSet ==
  {NoOptions}
  \cup [given : {TRUE}, isFunction : BOOLEAN, getSecret : BOOLEAN,
        client : BOOLEAN, credentials : BOOLEAN,
        clientId : IdValues, clientSecret : IdValues]

Truthy(field) == field \notin {"undefined", ""}

NoClient == [wrapped |-> FALSE, from |-> "none", thrown |-> "none"]

Thrown(message) == [wrapped |-> FALSE, from |-> "none", thrown |-> message]

wrapClient(from) == [wrapped |-> TRUE, from |-> from, thrown |-> "none"]

\* createAndWrapKeyVaultClient without the test of options.clientSecret
createAndWrapNoSecretTest(options) ==
  LET client == IF options.isFunction /\ options.getSecret THEN "options"
                ELSE IF options.client THEN "options.client"
                ELSE "none"
      client2 == IF options.credentials /\ client = "none"
                 THEN "credentials" ELSE client
  IN IF ~options.given THEN Thrown("No options provided")
     ELSE IF client2 # "none" THEN wrapClient(client2)
     ELSE IF ~Truthy(options.clientId) THEN Thrown("Must provide clientId")
     ELSE wrapClient("authenticator")

createAndWrapKeyVaultClient(options) ==
  LET client == IF options.isFunction /\ options.getSecret THEN "options"
                ELSE IF options.client THEN "options.client"
                ELSE "none"
      client2 == IF options.credentials /\ client = "none"
                 THEN "credentials" ELSE client
  IN IF ~options.given THEN Thrown("No options provided")
     ELSE IF client2 # "none" THEN wrapClient(client2)
     ELSE IF ~Truthy(options.clientId) THEN Thrown("Must provide clientId")
     ELSE IF ~Truthy(options.clientSecret)
     THEN Thrown("Must provide clientSecret")
     ELSE wrapClient("authenticator")

(***************************************************************************)
(* resolveKeyVaultValue, before and after getSecret calls back.            *)
(***************************************************************************)
\* PrepareFetch without  keyVaultUrl.auth = null
PrepareFetchKeepAuth(keyVaultUrl) ==
  LET tag == keyVaultUrl.auth
      u == [keyVaultUrl EXCEPT !.protocol = httpsProtocol]
  IN [tag |-> tag, secretId |-> urlFormat(u)]

\* lines 41-46: the tag is taken out of the URL, which becomes the secretId
PrepareFetch(keyVaultUrl) ==
  LET tag == keyVaultUrl.auth
      u == [keyVaultUrl EXCEPT !.protocol = httpsProtocol, !.auth = NullField]
  IN [tag |-> tag, secretId |-> urlFormat(u)]

\* ResolvedValue falling back to the secret's value when the tag is missing
ResolvedValueFallback(tag, secretResponse) ==
  IF tag = NullField THEN Str(<<secretResponse.value>>)
  ELSE IF secretResponse.tags.present /\ tag \in DOMAIN secretResponse.tags.map
  THEN Str(<<secretResponse.tags.map[tag]>>)
  ELSE Str(<<secretResponse.value>>)

\* lines 51-56: the value written for a successful secretResponse
ResolvedValue(tag, secretResponse) ==
  IF tag = NullField THEN Str(<<secretResponse.value>>)
  ELSE IF secretResponse.tags.present
  THEN IF tag \in DOMAIN secretResponse.tags.map
       THEN Str(<<secretResponse.tags.map[tag]>>) ELSE Undefined
  ELSE Undefined

(***************************************************************************)
(* async.forEachOf(paths, iteratee, callback): the iteratee is started for *)
(* every key, then the final callback, wrapped in once(), is called with   *)
(* the first error or, when the last running iteratee has called back,     *)
(* with null.  getSecret is asynchronous: all iteratees are started before *)
(* the first getSecret callback runs.                                      *)
(***************************************************************************)
Success == "null"

NotStarted == [running |-> 0, done |-> FALSE, called |-> FALSE, log |-> <<>>]

\* the callback without the once() wrapper
onceUnguarded(st, result) ==
  [st EXCEPT !.called = TRUE, !.log = Append(@, result)]

\* once(callback)(result)
once(st, result) ==
  IF st.called THEN st
  ELSE [st EXCEPT !.called = TRUE, !.log = Append(@, result)]

\* iterateeCallback signalling the end without looking at the running count
iterateeCallbackEarly(st, err) ==
  LET s1 == [st EXCEPT !.running = @ - 1]
  IN IF err # NoError THEN once([s1 EXCEPT !.done = TRUE], err)
     ELSE IF s1.done THEN once(s1, Success)
     ELSE s1

\* the callback handed to each iteratee
iterateeCallback(st, err) ==
  LET s1 == [st EXCEPT !.running = @ - 1]
  IN IF err # NoError THEN once([s1 EXCEPT !.done = TRUE], err)
     ELSE IF s1.done /\ s1.running <= 0 THEN once(s1, Success)
     ELSE s1

\* all iteratees started: n are running
startAll(st, n) ==
  LET s1 == [st EXCEPT !.running = n, !.done = TRUE]
  IN IF n <= 0 THEN once(s1, Success) ELSE s1

(***************************************************************************)
(* State.                                                                  *)
(***************************************************************************)
VARIABLES
  options,     \* the argument of createAndWrapKeyVaultClient
  client,      \* what createAndWrapKeyVaultClient gave: a wrapped client or a throw
  pc,          \* "idle" before getObjectSecrets is called, "called" after
  object,      \* the configuration tree, mutated in place
  original,    \* the tree as it was handed to getObjectSecrets
  paths,       \* the map built by identifyKeyVaultValuePaths
  fetches,     \* path -> tag and secretId of its resolveKeyVaultValue call
  getSecretCalls, \* the getSecret calls in call order: the path of the
               \* resolveKeyVaultValue call and the secretId it passed
  pending,     \* paths whose getSecret has not called back yet
  each,        \* the state of async.forEachOf and of the caller's callback
  resp,        \* path -> what getSecret handed to the callback
  writes,      \* path -> the value objectPath.set has written for it
  firstError   \* the error of the first getSecret that failed

vars == <<options, client, pc, object, original, paths, fetches,
          getSecretCalls, pending, each, resp, writes, firstError>>

passVars == <<pc, object, original, paths, fetches, getSecretCalls, pending,
              each, resp, writes, firstError>>

PassIdle(tree) ==
  /\ pc = "idle"
  /\ object = tree
  /\ original = tree
  /\ paths = NoPaths
  /\ fetches = <<>>
  /\ getSecretCalls = <<>>
  /\ pending = {}
  /\ each = NotStarted
  /\ resp = <<>>
  /\ writes = <<>>
  /\ firstError = NoError

\* a wrapped client holds the caller's tree; no pass has begun
Init ==
  /\ options = [NoOptions EXCEPT !.given = TRUE, !.client = TRUE]
  /\ client = createAndWrapKeyVaultClient(options)
  /\ \E tree \in Trees : PassIdle(tree)

\* resolveSecrets with a catch block that swallows the error of the scan
resolveSecretsSwallow ==
  /\ client.wrapped
  /\ pc = "idle"
  /\ pc' = "called"
  /\ LET found == IF scanThrows(object) THEN NoPaths
                  ELSE identifyKeyVaultValuePaths(object, NoPrefix)
         prepared == [p \in DOMAIN found.map |-> PrepareFetch(found.map[p])]
     IN /\ paths' = found
        /\ fetches' = prepared
        /\ getSecretCalls' =
             [i \in 1..Len(found.keys) |->
                [path |-> found.keys[i],
                 secretId |-> prepared[found.keys[i]].secretId]]
        /\ pending' = DOMAIN found.map
        /\ each' = startAll(each, Len(found.keys))
        /\ resp' = [p \in DOMAIN found.map |-> Pending]
  /\ UNCHANGED <<options, client, object, original, writes, firstError>>

\* keyVaultClient.getObjectSecrets(object, callback), lines 97-105, with the
\* synchronous part of every resolveKeyVaultValue call, lines 40-47
resolveSecrets ==
  /\ client.wrapped
  /\ pc = "idle"
  /\ pc' = "called"
  /\ IF scanThrows(object)
     THEN /\ each' = [each EXCEPT !.log = Append(@, ScanError)]
          /\ UNCHANGED <<paths, fetches, getSecretCalls, pending, resp>>
     ELSE LET found == identifyKeyVaultValuePaths(object, NoPrefix)
              prepared ==
                [p \in DOMAIN found.map |-> PrepareFetch(found.map[p])]
          IN /\ paths' = found
             /\ fetches' = prepared
             /\ getSecretCalls' =
                  [i \in 1..Len(found.keys) |->
                     [path |-> found.keys[i],
                      secretId |-> prepared[found.keys[i]].secretId]]
             /\ pending' = DOMAIN found.map
             /\ each' = startAll(each, Len(found.keys))
             /\ resp' = [p \in DOMAIN found.map |-> Pending]
  /\ UNCHANGED <<options, client, object, original, writes, firstError>>

\* getSecretCallback calling getSecret again for a fetch that failed
getSecretCallbackRetry(path, outcome) ==
  /\ pc = "called"
  /\ path \in pending
  /\ resp' = [resp EXCEPT ![path] = outcome]
  /\ IF outcome.err # NoError
     THEN /\ getSecretCalls' = Append(getSecretCalls,
                                 [path |-> path,
                                  secretId |-> fetches[path].secretId])
          /\ UNCHANGED <<object, writes, firstError, each, pending>>
     ELSE /\ object' = objectPathSet(object, path,
                         ResolvedValue(fetches[path].tag, outcome))
          /\ writes' = [p \in (DOMAIN writes) \cup {path} |->
                          IF p = path
                          THEN ResolvedValue(fetches[path].tag, outcome)
                          ELSE writes[p]]
          /\ each' = iterateeCallback(each, NoError)
          /\ pending' = pending \ {path}
          /\ UNCHANGED <<firstError, getSecretCalls>>
  /\ UNCHANGED <<options, client, pc, original, paths, fetches>>

\* getSecret calls back for path with (getSecretError, secretResponse),
\* lines 47-59, and the iteratee's callback runs in async.forEachOf; when
\* objectPath.set throws, line 58 is not reached
getSecretCallback(path, outcome) ==
  /\ pc = "called"
  /\ path \in pending
  /\ pending' = pending \ {path}
  /\ resp' = [resp EXCEPT ![path] = outcome]
  /\ IF outcome.err # NoError
     THEN /\ firstError' = IF firstError = NoError THEN outcome.err
                           ELSE firstError
          /\ each' = iterateeCallback(each, outcome.err)
          /\ UNCHANGED <<object, writes>>
     ELSE IF objectPathSetThrows(object, path)
     THEN UNCHANGED <<object, writes, firstError, each>>
     ELSE /\ object' = objectPathSet(object, path,
                         ResolvedValue(fetches[path].tag, outcome))
          /\ writes' = [p \in (DOMAIN writes) \cup {path} |->
                          IF p = path
                          THEN ResolvedValue(fetches[path].tag, outcome)
                          ELSE writes[p]]
          /\ each' = iterateeCallback(each, NoError)
          /\ UNCHANGED firstError
  /\ UNCHANGED <<options, client, pc, original, paths, fetches, getSecretCalls>>

Next ==
  \/ resolveSecrets
  \/ \E path \in pending, outcome \in Outcomes : getSecretCallback(path, outcome)

Spec == Init /\ [][Next]_vars

(***************************************************************************)
(* Client construction on its own: every options value, then the call.     *)
(***************************************************************************)
InitCreate ==
  /\ options \in OptionsSet
  /\ client = NoClient
  /\ PassIdle(EmptyObj)

createClient ==
  /\ client = NoClient
  /\ client' = createAndWrapKeyVaultClient(options)
  /\ UNCHANGED <<options, passVars>>

NextCreate ==
  \/ createClient
  \/ resolveSecrets

SpecCreate == InitCreate /\ [][NextCreate]_vars

(***************************************************************************)
(* Vocabulary of the properties: leaves by structural position (the        *)
(* sequence of property names from the root), independent of the scan.     *)
(***************************************************************************)
RECURSIVE LeafPositions(_)
LeafPositions(node) ==
  IF node.t # "object" THEN {<<>>}
  ELSE UNION {{<<k>> \o pos : pos \in LeafPositions(node.kids[k])} :
              k \in DOMAIN node.kids}

RECURSIVE LeafAt(_, _)
LeafAt(node, pos) ==
  IF pos = <<>> THEN node ELSE LeafAt(node.kids[Head(pos)], Tail(pos))

\* a string leaf whose scheme is the marker scheme
IsReference(leaf) ==
  leaf.t = "string" /\ Len(leaf.s) >= 1 /\ leaf.s[1] = "keyvault:"

RefLeafPositions(tree) ==
  {pos \in LeafPositions(tree) : IsReference(LeafAt(tree, pos))}

\* the user-info of a reference leaf, "null" when it has none
TagOfLeaf(leaf) ==
  IF Len(leaf.s) >= 4 /\ leaf.s[4] = "@" THEN leaf.s[3] ELSE "null"

RECURSIVE DottedPath(_)
DottedPath(pos) ==
  IF Len(pos) = 1 THEN pos[1] ELSE pos[1] \o <<".">> \o DottedPath(Tail(pos))

\* a configuration tree proper: no object contains itself
IsTree(tree) == ~Cyclic(tree)

Reported == each.log # <<>>

ReportedSuccess == Reported /\ each.log[1] = Success

ReportedError == Reported /\ each.log[1] # Success

\* the tag of path's reference is missing from the secret fetched for it
TagAbsent(path) ==
  /\ resp[path].err = NoError
  /\ fetches[path].tag # "null"
  /\ fetches[path].tag \notin DOMAIN resp[path].tags.map

(***************************************************************************)
(* Properties.                                                             *)
(***************************************************************************)

\* C1: when the completion callback has been invoked with no error, no
\* fetch of the pass is outstanding, every fetch has succeeded and its
\* resolved value has been written into the tree at its path.
SuccessOnlyAfterAllFetches ==
  ReportedSuccess =>
    /\ pending = {}
    /\ \A p \in DOMAIN paths.map :
         /\ resp[p].err = NoError
         /\ p \in DOMAIN writes
         /\ writes[p] = ResolvedValue(fetches[p].tag, resp[p])

SuccessAfterSeveralFetches ==
  ReportedSuccess /\ Cardinality(DOMAIN paths.map) >= 2

\* C2: if a fetch has failed, the completion callback has been invoked
\* exactly with the error of the fetch that failed first, and never with
\* success, whatever the other fetches do.
FirstErrorWins == firstError # NoError => each.log = <<firstError>>

TwoFailuresAndASuccess ==
  /\ pending = {}
  /\ \E p, q, r \in DOMAIN paths.map :
       /\ resp[p].err \in Errors
       /\ resp[q].err \in Errors
       /\ resp[p].err # resp[q].err
       /\ resp[r].err = NoError

\* C3: once the pass has reported an error, the tree is never written
\* again (no fetch completing after the report writes its value).
NoWriteAfterErrorReport == [][ReportedError => object' = object]_vars

\* C4: after a pass that reports success, a reference leaf without a tag
\* equals the primary value of its fetch, and a reference leaf with tag t
\* whose secret carries t equals the value of tag t.
ReferenceLeavesResolved ==
  ReportedSuccess =>
    \A pos \in RefLeafPositions(original) :
      LET tag == TagOfLeaf(LeafAt(original, pos))
          r == resp[DottedPath(pos)]
      IN /\ tag = "null" => LeafAt(object, pos) = Str(<<r.value>>)
         /\ (tag # "null" /\ tag \in DOMAIN r.tags.map)
              => LeafAt(object, pos) = Str(<<r.tags.map[tag]>>)

\* C5: a fetch that succeeds without the requested tag leaves undefined at
\* its path and counts as a success: an error is reported only if a fetch
\* failed, and the pass reports success when all fetches are back and none
\* failed.
AbsentTagIsUndefinedNotError ==
  IsTree(original) =>
    /\ \A p \in DOMAIN paths.map :
         TagAbsent(p) => objectPathGet(object, p) = Undefined
    /\ ReportedError => firstError # NoError
    /\ (pc = "called" /\ pending = {} /\ firstError = NoError)
         => each.log = <<Success>>

SuccessWithAbsentTag ==
  /\ ReportedSuccess
  /\ \E p \in DOMAIN paths.map : TagAbsent(p) /\ resp[p].tags.present
  /\ \E p \in DOMAIN paths.map : TagAbsent(p) /\ ~resp[p].tags.present

\* C6: on a tree without a reference leaf, getObjectSecrets issues no
\* fetch, leaves the tree unchanged and reports success.
NoReferenceIsNoOp ==
  (pc = "called" /\ IsTree(original) /\ RefLeafPositions(original) = {}) =>
    /\ getSecretCalls = <<>>
    /\ object = original
    /\ each.log = <<Success>>

PassOverPlainLeaves ==
  /\ pc = "called"
  /\ IsTree(original)
  /\ RefLeafPositions(original) = {}
  /\ \E pos \in LeafPositions(original) :
       LeafAt(original, pos) = HttpsUri

\* C7: in every state of a pass, every leaf that is not a reference keeps
\* its initial value and the shape of the tree is unchanged.
OtherLeavesUntouched ==
  /\ LeafPositions(object) = LeafPositions(original)
  /\ \A pos \in LeafPositions(original) :
       ~IsReference(LeafAt(original, pos))
         => LeafAt(object, pos) = LeafAt(original, pos)

\* C8: construction throws and gives no wrapped client (so no pass can be
\* started) when no options are given, or when neither a client nor
\* credentials are supplied and clientId or clientSecret is missing; with
\* a client or credentials supplied it succeeds whatever clientId and
\* clientSecret are.
ClientSupplied == (options.isFunction /\ options.getSecret) \/ options.client

ConstructionFailed ==
  client.thrown # "none" /\ ~client.wrapped /\ pc = "idle"

ConstructionContract ==
  client # NoClient =>
    /\ ~options.given => ConstructionFailed
    /\ ( /\ options.given
         /\ ~ClientSupplied
         /\ ~options.credentials
         /\ ~(Truthy(options.clientId) /\ Truthy(options.clientSecret)) )
         => ConstructionFailed
    /\ (options.given /\ (ClientSupplied \/ options.credentials))
         => client.wrapped /\ client.thrown = "none"

MissingClientSecretThrows ==
  /\ client # NoClient
  /\ options.given
  /\ ~ClientSupplied
  /\ ~options.credentials
  /\ Truthy(options.clientId)
  /\ ~Truthy(options.clientSecret)
  /\ ConstructionFailed

\* C9: the map of the scan has exactly one entry per reference leaf, keyed
\* by the dotted path of the leaf, and as many entries as the tree has
\* reference leaves.
OneEntryPerReferenceLeaf ==
  (pc = "called" /\ IsTree(original)) =>
    /\ DOMAIN paths.map
         = {DottedPath(pos) : pos \in RefLeafPositions(original)}
    /\ Cardinality(DOMAIN paths.map)
         = Cardinality(RefLeafPositions(original))

\* C11: in every state of a pass each reference leaf holds its original
\* reference string or the resolved value of its own fetch (primary value,
\* tag value, or undefined for an absent tag), never another reference's
\* value; the leaf of a failed fetch keeps its reference string.
OwnValueOrOriginal ==
  (pc = "called" /\ IsTree(original)) =>
    \A pos \in RefLeafPositions(original) :
      LET leaf == LeafAt(original, pos)
          r == resp[DottedPath(pos)]
          cur == LeafAt(object, pos)
      IN /\ \/ cur = leaf
            \/ /\ r.err = NoError
               /\ cur = ResolvedValue(TagOfLeaf(leaf), r)
         /\ r.err \in Errors => cur = leaf

\* C12: in one pass getSecret is called exactly once for each entry of
\* the map of the scan and for nothing else, whatever the fetches return:
\* no retry after a failure, no second call for a path, no call for a
\* resolved value that is itself a marker-scheme string.
OneGetSecretPerEntry ==
  pc = "called" =>
    /\ Len(getSecretCalls) = Cardinality(DOMAIN paths.map)
    /\ \A p \in DOMAIN paths.map :
         Cardinality({i \in 1..Len(getSecretCalls) :
                        getSecretCalls[i].path = p}) = 1
    /\ \A i \in 1..Len(getSecretCalls) :
         getSecretCalls[i].path \in DOMAIN paths.map

FailureAndMarkerValueNoNewCall ==
  /\ pending = {}
  /\ \E p \in DOMAIN paths.map : resp[p].err \in Errors
  /\ \E q \in DOMAIN paths.map :
       /\ resp[q].err = NoError
       /\ IsReference(objectPathGet(object, q))

\* C13: the URI passed to getSecret is the reference with the https scheme,
\* the same host and path, and no user-info; references that differ only
\* in the tag are fetched with the same URI.
StripTag(s) == IF Len(s) >= 4 /\ s[4] = "@" THEN <<s[1], s[2]>> \o Drop(s, 4) ELSE s

ExpectedSecretId(s) == <<"https:">> \o Drop(StripTag(s), 1)

\* the reference leaves whose dotted path is the path of the i-th call
CallLeaves ==
  LET refs == RefLeafPositions(original)
  IN [i \in 1..Len(getSecretCalls) |->
        {LeafAt(original, pos) : pos \in
           {q \in refs : DottedPath(q) = getSecretCalls[i].path}}]

SecretIdIsHttpsWithoutTag ==
  LET leaves == CallLeaves
  IN /\ \A i \in 1..Len(getSecretCalls) :
          /\ \E leaf \in leaves[i] :
               getSecretCalls[i].secretId = ExpectedSecretId(leaf.s)
          /\ "@" \notin {getSecretCalls[i].secretId[k] :
                           k \in 1..Len(getSecretCalls[i].secretId)}
     /\ \A i, j \in 1..Len(getSecretCalls) :
          (\E l1 \in leaves[i], l2 \in leaves[j] :
              StripTag(l1.s) = StripTag(l2.s))
            => getSecretCalls[i].secretId = getSecretCalls[j].secretId

FetchesDifferingInTagOnly ==
  \E i, j \in 1..Len(getSecretCalls) :
    /\ fetches[getSecretCalls[i].path].tag = "null"
    /\ fetches[getSecretCalls[j].path].tag # "null"
    /\ getSecretCalls[i].secretId = getSecretCalls[j].secretId
    /\ Len(getSecretCalls[i].secretId) = 5
    /\ \E k \in 1..Len(getSecretCalls) :
         Len(getSecretCalls[k].secretId) = 4

\* C14: if the scan throws (the object cannot be traversed),
\* getObjectSecrets reports that error through the callback, calls
\* getSecret for nothing and leaves the object as it was.
ScanErrorReportedWithoutFetch ==
  (pc = "called" /\ scanThrows(original)) =>
    /\ each.log = <<ScanError>>
    /\ getSecretCalls = <<>>
    /\ pending = {}
    /\ object = original

CyclicObjectWithReference ==
  /\ pc = "called"
  /\ Cyclic(original)
  /\ RefLeafPositions(original) # {}

\* C15: within one pass no write path is a prefix of another, and no
\* completion overwrites or destroys the value written by another one:
\* what a completion wrote stays at its path.
IsSegPrefix(a, b) ==
  Len(a) < Len(b) /\ \A i \in 1..Len(a) : a[i] = b[i]

WritePathsDisjoint ==
  (pc = "called" /\ IsTree(original)) =>
    /\ \A p, q \in DOMAIN paths.map :
         ~IsSegPrefix(SplitDots(p, <<>>, <<>>), SplitDots(q, <<>>, <<>>))
    /\ \A p \in DOMAIN writes : objectPathGet(object, p) = writes[p]

\* C16: the caller's callback is invoked at most once and, once every
\* getSecret of the pass has called back, exactly once.
CallbackExactlyOnce ==
  /\ Len(each.log) <= 1
  /\ (pc = "called" /\ pending = {}) => Len(each.log) = 1

\* C17: once every getSecret of the pass has called back, the caller's
\* callback has been invoked; while no fetch has failed and one is still
\* outstanding, it has not been invoked.
CallbackIffFetchesBack ==
  /\ (pc = "called" /\ pending = {}) => Reported
  /\ (firstError = NoError /\ pending # {}) => ~Reported

\* C18: for a fixed tree and fixed outcomes, the tree reached when all
\* fetches have completed does not depend on the order of the
\* completions: it is the tree reached by completing them in map order.
ApplyCompletion(obj, path, outcome) ==
  IF outcome.err # NoError \/ objectPathSetThrows(obj, path) THEN obj
  ELSE objectPathSet(obj, path, ResolvedValue(fetches[path].tag, outcome))

RECURSIVE ApplyInOrder(_, _, _)
ApplyInOrder(obj, order, i) ==
  IF i > Len(order) THEN obj
  ELSE ApplyInOrder(ApplyCompletion(obj, order[i], resp[order[i]]),
                    order, i + 1)

FinalTreeOrderIndependent ==
  (pc = "called" /\ pending = {}) =>
    object = ApplyInOrder(original, paths.keys, 1)

====
